---- MODULE Spec2Model ----
(***************************************************************************)
(* StreetSmart (safe-wander): route request handling of the Map component  *)
(* and its parent page, the crime / lighting grid builders, the community  *)
(* reports and the nearby-places lookup.                                   *)
(*                                                                         *)
(* Spec             the page (Index) and the Map route-calculation effect, *)
(*                  the directions callback and the grid-loading effects.  *)
(* SpecLayers       the same with the safety layers toggled and loaded.    *)
(* SpecGrid         the two processCSV grid builders and their scripts,    *)
(*                  applied to bounded files.                              *)
(* SpecReportUtils  filterValidReports, getConfidenceScore and             *)
(*                  calculateReportImpact applied to bounded reports.      *)
(* SpecReports      the reports of the page: loading, placing on the map,  *)
(*                  voting, dismissing, and the passing of time.           *)
(* SpecPlaces       one call of fetchNearbyPlaces and its callbacks.       *)
(* SpecCompare      the selection rules of compareRoutes applied to        *)
(*                  bounded lists of scored candidate routes.              *)
(*                                                                         *)
(* Renders are batched: the effects of Map run once after a handler or a   *)
(* callback has finished, with the state the handler left.  The route      *)
(* effect is a no-op when its inputs did not change (Map.tsx:825), so it   *)
(* is modelled as the tail of every handler that changes one of its        *)
(* dependencies.  The model starts once initMap has created the map.       *)
(***************************************************************************)
EXTENDS Integers, Sequences, FiniteSets, TLC

VARIABLES
    \* ---- Index page state (unnamed/part_000) ----
    userLocation,            \* useState userLocation
    routeOrigin,             \* useState routeOrigin
    routeDestination,        \* useState routeDestination
    routeComparison,         \* useState routeComparison (shown by RouteOptions)
    selectedRouteType,       \* useState selectedRouteType
    activeLayers,            \* useState activeLayers (heatmap, lightingHeatmap)
    \* ---- Map component refs (components/Map.tsx) ----
    lastRouteKeyRef,         \* a string: the sequence of its characters
    lastDirectionsResultRef,
    routeComparisonRef,
    heatmapDataRef,          \* also the heatmapData state, set together
    lightingHeatmapDataRef,  \* also the lightingHeatmapData state
    drawn,                   \* what the route polylines on the map show
    \* ---- environment ----
    requests,                \* directions requests issued, in order
    gridLoads,               \* grid loads in flight, per kind
    compareCalls,            \* log: arguments of every compareRoutes call
    callerEvents,            \* log: callbacks delivered to the page
    \* ---- grid builders (lib/processHeatmapData.js, processLightingData.js) ----
    crimeCsv,                \* data rows of the crime CSV
    lightingCsv,             \* data rows of the lighting CSV
    heatmapJson,             \* result of the crime processCSV
    lightingJson,            \* result of the lighting processCSV
    csvHeaders,              \* per script: what lines[0] of its CSV file is
    processRun,              \* per script: how its run ended, what it logged
    \* ---- community reports (Index, CommunityReports, Map, reportUtils) ----
    communityReports,        \* useState communityReports (Index)
    pendingReport,           \* useState pendingReport (Index)
    validReports,            \* useState validReports (CommunityReports)
    infoWindowRef,           \* the open placement confirmation, if any
    reportsFetch,            \* the fetch of /data/community-reports.json
    generatedIds,            \* how many ids generateReportId has returned
    filteredAt,              \* when the validReports effect last ran
    now,                     \* Date.now(), in hours
    reportImpact,            \* log: the last calculateReportImpact call
    \* ---- nearby places (lib/placesUtils.ts) ----
    placesProvider,          \* what the Places service answers
    placesCall,              \* the fetchNearbyPlaces call in progress
    \* ---- route comparator (lib/heatmapUtils, specification section 4.5) ----
    compareRun               \* one compareRoutes call: candidates and result

indexVars == <<userLocation, routeOrigin, routeDestination, routeComparison,
               selectedRouteType, activeLayers>>
mapVars   == <<lastRouteKeyRef, lastDirectionsResultRef, routeComparisonRef,
               heatmapDataRef, lightingHeatmapDataRef, drawn>>
envVars   == <<requests, gridLoads, compareCalls, callerEvents>>
gridVars  == <<crimeCsv, lightingCsv, heatmapJson, lightingJson, csvHeaders,
               processRun>>
reportVars == <<communityReports, pendingReport, validReports, infoWindowRef,
                reportsFetch, generatedIds, filteredAt, now, reportImpact>>
placeVars == <<placesProvider, placesCall>>
scoreVars == <<compareRun>>
vars      == <<indexVars, mapVars, envVars, gridVars, reportVars, placeVars,
               scoreVars>>

\* JavaScript null / undefined
NULL == [null |-> TRUE]

----------------------------------------------------------------------------
(* Bounds *)

\* directions requests issued in one run
MaxRequests == 2
\* directions requests issued in one run while the layers are toggled
MaxScoredRequests == 1
\* route alternatives in one directions answer
MaxRoutes == 2
\* loads of one grid in flight at a time
MaxGridLoads == 1

\* Places a route can start or end at: one with coordinates that print
\* without a minus sign, one with a negative longitude (as in Toronto).
LocEast == [lat |-> 4, lng |-> 7]
LocWest == [lat |-> 4, lng |-> -7]
Locs == {LocEast, LocWest}
\* Places routes start from while the layers are toggled
ScoredOrigins == {LocEast}

RouteTypes == {"shortest", "safest", "balanced"}
\* selectedRouteType is null
NoType == "none"

DirectionsStatuses == {"OK", "ZERO_RESULTS", "UNKNOWN_ERROR"}

\* grids the loaders can deliver: no cells, or some cells
LoadedGrids == {[cells |-> 0], [cells |-> 1]}

----------------------------------------------------------------------------
(* Strings: a string is the sequence of its characters.  A number prints   *)
(* as its digits, preceded by "-" when negative; a route type prints as    *)
(* one token that holds no "-".                                            *)

DigitStr(n) ==
    CASE n = 0 -> "0" [] n = 1 -> "1" [] n = 2 -> "2" [] n = 3 -> "3"
      [] n = 4 -> "4" [] n = 5 -> "5" [] n = 6 -> "6" [] n = 7 -> "7"
      [] n = 8 -> "8" [] n = 9 -> "9"

\* `${n}` for a one-digit integer n
NumStr(n) == IF n < 0 THEN <<"-", DigitStr(0 - n)>> ELSE <<DigitStr(n)>>

\* String.prototype.split(sep)
RECURSIVE Split(_, _)
Split(s, sep) ==
    IF \A i \in 1..Len(s) : s[i] # sep
    THEN <<s>>
    ELSE LET i == CHOOSE k \in 1..Len(s) :
                     s[k] = sep /\ \A j \in 1..(k - 1) : s[j] # sep
         IN  <<SubSeq(s, 1, i - 1)>> \o Split(SubSeq(s, i + 1, Len(s)), sep)

\* Array.prototype.join(sep)
RECURSIVE Join(_, _)
Join(parts, sep) ==
    IF Len(parts) = 0 THEN <<>>
    ELSE IF Len(parts) = 1 THEN parts[1]
    ELSE parts[1] \o <<sep>> \o Join(Tail(parts), sep)

\* Array.prototype.slice(0, 2)
SliceTwo(parts) == SubSeq(parts, 1, IF Len(parts) < 2 THEN Len(parts) ELSE 2)

\* `${origin.lat},${origin.lng}-${routeDestination.lat},${routeDestination.lng}`
BaseRouteKey(origin, dest) ==
    NumStr(origin.lat) \o <<",">> \o NumStr(origin.lng) \o <<"-">> \o
    NumStr(dest.lat) \o <<",">> \o NumStr(dest.lng)

\* `${baseRouteKey}-${selectedRouteType || 'default'}`
RouteKey(base, sel) ==
    base \o <<"-">> \o <<IF sel = NoType THEN "default" ELSE sel>>

\* lastRouteKeyRef.current is null: no key was stored yet.  Every stored key
\* is a non-empty string, so the empty string stands for null.
NoKey == <<>>

\* lastRouteKeyRef.current?.split('-').slice(0, 2).join('-')
\* (for NoKey the result is the empty string, which equals no base key,
\* as undefined equals no base key)
LastBaseKey(last) == Join(SliceTwo(Split(last, "-")), "-")

----------------------------------------------------------------------------
(* The directions provider and the route comparator *)

\* the answer of the provider to request k with n alternatives
DirectionsResult(k, n) ==
    [req |-> k, routes |-> [i \in 1..n |-> [req |-> k, idx |-> i]]]

\* Which alternatives the comparator selects depends on distances and on
\* the grids' scores along each geometry, which this specification leaves
\* to the environment: pick = <<shortest, safest, balanced>> as indices.
Picks(n) == IF n < 2 THEN {<<1, 1, 1>>} ELSE {<<1, 1, 1>>, <<1, n, n>>}

\* a SafetyGrid is unavailable (null) or empty
GridUnavailable(grid) == grid = NULL \/ grid.cells = 0

\* compareRoutes(routes, crimeGrid, lightingGrid) throws on an empty list
CompareRoutesThrows(routes) == Len(routes) = 0

\* (a comparator that returns copies of the selected RouteScores: objects
\* that are not elements of routes)
compareRoutesCopying(routes, crimeGrid, lightingGrid, pick) ==
    LET scores == [i \in 1..Len(routes) |-> [route |-> routes[i], ref |-> i]]
    IN  [routes   |-> scores,
         shortest |-> [scores[pick[1]] EXCEPT !.ref = Len(routes) + 1],
         safest   |-> [scores[pick[2]] EXCEPT !.ref = Len(routes) + 2],
         balanced |-> [scores[pick[3]] EXCEPT !.ref = Len(routes) + 3],
         degraded |-> GridUnavailable(crimeGrid) \/ GridUnavailable(lightingGrid)]

\* compareRoutes(routes, crimeGrid, lightingGrid): one RouteScore per
\* candidate, the three selections are elements of routes, and the result
\* is marked degraded when a grid is unavailable or empty.  ref is the
\* object a RouteScore is: two RouteScores are the same object (===) when
\* their refs are equal.
compareRoutes(routes, crimeGrid, lightingGrid, pick) ==
    LET scores == [i \in 1..Len(routes) |-> [route |-> routes[i], ref |-> i]]
    IN  [routes   |-> scores,
         shortest |-> scores[pick[1]],
         safest   |-> scores[pick[2]],
         balanced |-> scores[pick[3]],
         degraded |-> GridUnavailable(crimeGrid) \/ GridUnavailable(lightingGrid)]

\* comparison[type]
Selection(comparison, type) ==
    CASE type = "shortest" -> comparison.shortest
      [] type = "safest"   -> comparison.safest
      [] type = "balanced" -> comparison.balanced

\* selectedRouteType && comparison[selectedRouteType]
\*   ? comparison[selectedRouteType]
\*   : comparison.balanced || comparison.shortest || comparison.routes[0] || null
RouteToDisplay(comparison, sel) ==
    IF sel # NoType /\ Selection(comparison, sel) # NULL
    THEN Selection(comparison, sel)
    ELSE IF comparison.balanced # NULL THEN comparison.balanced
    ELSE IF comparison.shortest # NULL THEN comparison.shortest
    ELSE IF Len(comparison.routes) > 0 THEN comparison.routes[1]
    ELSE NULL

\* the request a stored comparison was computed for
ComparisonReq(comparison) == comparison.routes[1].route.req

----------------------------------------------------------------------------
(* The Map route-calculation effect *)

\* const origin = routeOrigin || userLocation
EffectiveOrigin(ro, ul) == IF ro # NULL THEN ro ELSE ul

\* the part of the Map state the route effect and the callback work on
MapState ==
    [key   |-> lastRouteKeyRef,
     dir   |-> lastDirectionsResultRef,
     cmp   |-> routeComparisonRef,
     drawn |-> drawn,
     reqs  |-> requests]

\* the cached branch is taken: same base key, a stored comparison, another
\* full key, and something to display
CachedBranch(m, base, key, sel) ==
    /\ LastBaseKey(m.key) = base
    /\ m.cmp # NULL
    /\ m.key # key
    /\ RouteToDisplay(m.cmp, sel) # NULL
    /\ RouteToDisplay(m.cmp, sel).route # NULL
    /\ m.dir # NULL

\* the effect, run with the props ro, rd, ul, sel on the Map state m
RouteEffect(m, ro, rd, ul, sel) ==
    LET origin == EffectiveOrigin(ro, ul) IN
    IF rd = NULL \/ origin = NULL THEN m
    ELSE
      LET base == BaseRouteKey(origin, rd)
          key  == RouteKey(base, sel)
      IN  IF CachedBranch(m, base, key, sel)
          THEN [m EXCEPT !.key = key,
                         !.drawn = [route  |-> RouteToDisplay(m.cmp, sel).route,
                                    type   |-> sel,
                                    cached |-> TRUE]]
          ELSE IF m.key = key THEN m
          ELSE [m EXCEPT !.key = key,
                         !.drawn = NULL,
                         !.reqs = Append(@, [origin |-> origin, dest |-> rd,
                                             sel |-> sel,
                                             outcome |-> "pending"])]

\* the Map state after the effect is written back
SetMapState(m) ==
    /\ lastRouteKeyRef' = m.key
    /\ lastDirectionsResultRef' = m.dir
    /\ routeComparisonRef' = m.cmp
    /\ drawn' = m.drawn
    /\ requests' = m.reqs
    /\ Len(m.reqs) <= MaxRequests

----------------------------------------------------------------------------
(* The grid builders: lib/processHeatmapData.js, lib/processLightingData.js *)
(*                                                                         *)
(* Latitudes and longitudes are integers in units of 0.001 degree, so the  *)
(* arithmetic of the builders is exact.                                    *)

GRID_SIZE == 5
LAT_MIN == 43580
LAT_MAX == 43850
LON_MIN == -79640
LON_MAX == -79120

\* the coordinates a crime row must have to be kept:
\* lat < 43.5 || lat > 44.0, lng < -79.7 || lng > -79.0 are skipped
ROW_LAT_MIN == 43500
ROW_LAT_MAX == 44000
ROW_LON_MIN == -79700
ROW_LON_MAX == -79000

\* rows in one CSV file
MaxRows == 4
\* rows in a CSV file whose first line lacks a required column
MaxRowsNoColumns == 1

\* the two scripts
Scripts == {"heatmap", "lighting"}

\* lines[0] of a CSV file: a header with the required columns; a line
\* without one of them (indexOf gives -1); or nothing, the file has no
\* non-blank line
HeaderShapes == {"columns", "other", "none"}

\* all sequences over S of length at most n
SeqsUpTo(S, n) == UNION {[1..k -> S] : k \in 0..n}

\* the CSV files given to a script, over the sample rows S
CsvFiles(S) ==
    {[headers |-> "columns", rows |-> r] : r \in SeqsUpTo(S, MaxRows)} \cup
    {[headers |-> "other", rows |-> r] : r \in SeqsUpTo(S, MaxRowsNoColumns)} \cup
    {[headers |-> "none", rows |-> <<>>]}

\* parseFloat / parseInt of a field: a number, or NaN
Num(v) == [nan |-> FALSE, v |-> v]
NaN == [nan |-> TRUE, v |-> 0]
isNaN(x) == x.nan

\* A crime row: short has fewer fields than the columns need; old has a
\* parseable OCC_DATE before the cutoff date.
CrimeRow(lat, lng, short, old) ==
    [lat |-> lat, lng |-> lng, short |-> short, old |-> old]

CrimeRowSamples ==
    { CrimeRow(Num(43600), Num(-79400), FALSE, FALSE),  \* inside the box
      CrimeRow(Num(43602), Num(-79398), FALSE, FALSE),  \* same cell
      CrimeRow(Num(43700), Num(-79300), FALSE, FALSE),  \* another cell
      CrimeRow(Num(43500), Num(-79300), FALSE, FALSE),  \* south of the box
      CrimeRow(Num(43850), Num(-79120), FALSE, FALSE),  \* on the box's corner
      CrimeRow(Num(44001), Num(-79300), FALSE, FALSE),  \* fails the row filter
      CrimeRow(NaN, Num(-79400), FALSE, FALSE),         \* not a number
      CrimeRow(Num(43600), Num(-79400), FALSE, TRUE),   \* too old
      CrimeRow(Num(43600), Num(-79400), TRUE, FALSE) }  \* missing fields

\* A lighting row: bin indices and a light count
LightingRow(latBin, lonBin, lightCount, short) ==
    [latBin |-> latBin, lonBin |-> lonBin, lightCount |-> lightCount,
     short |-> short]

LightingRowSamples ==
    { LightingRow(Num(0), Num(0), Num(1), FALSE),
      LightingRow(Num(3), Num(0), Num(1), FALSE),
      LightingRow(Num(3), Num(1), Num(2), FALSE),
      LightingRow(Num(0), Num(0), Num(5), FALSE),
      LightingRow(Num(5), Num(5), Num(0), FALSE),
      LightingRow(Num(2), Num(2), NaN, FALSE),
      LightingRow(Num(2), Num(2), Num(3), TRUE) }

\* the crime row loop keeps a row (lines 78-104)
CrimeRowKept(row) ==
    /\ ~row.short
    /\ ~isNaN(row.lat) /\ ~isNaN(row.lng)
    /\ ~(row.lat.v < ROW_LAT_MIN \/ row.lat.v > ROW_LAT_MAX)
    /\ ~(row.lng.v < ROW_LON_MIN \/ row.lng.v > ROW_LON_MAX)
    /\ ~row.old

\* the lighting row loop keeps a row (lines 74-91)
LightingRowKept(row) ==
    /\ ~row.short
    /\ ~isNaN(row.latBin) /\ ~isNaN(row.lonBin) /\ ~isNaN(row.lightCount)

\* Math.floor((crime.lat - LAT_MIN) / GRID_SIZE), and the same for lng;
\* the Map key `${latBin}_${lngBin}` is the pair of bins
CrimeKey(crime) ==
    <<(crime.lat.v - LAT_MIN) \div GRID_SIZE,
      (crime.lng.v - LON_MIN) \div GRID_SIZE>>

\* the keys of cellCounts in insertion order: first occurrences
RECURSIVE KeysInOrder(_)
KeysInOrder(crimes) ==
    IF crimes = <<>> THEN <<>>
    ELSE LET front == KeysInOrder(SubSeq(crimes, 1, Len(crimes) - 1))
             key   == CrimeKey(crimes[Len(crimes)])
         IN  IF \E i \in 1..Len(front) : front[i] = key
             THEN front
             ELSE Append(front, key)

\* cellCounts.get(key)
CellCount(crimes, key) ==
    Cardinality({i \in 1..Len(crimes) : CrimeKey(crimes[i]) = key})

\* Array.prototype.sort((a, b) => a - b)
RECURSIVE Sorted(_)
Sorted(counts) ==
    IF counts = <<>> THEN <<>>
    ELSE LET rest == Sorted(Tail(counts))
             x    == Head(counts)
             k    == Cardinality({i \in 1..Len(rest) : rest[i] <= x})
         IN  SubSeq(rest, 1, k) \o <<x>> \o SubSeq(rest, k + 1, Len(rest))

\* counts[index] || 0, index counted from 0
CountAtOrZero(counts, index) ==
    IF index >= 0 /\ index < Len(counts) THEN counts[index + 1] ELSE 0

\* (a percentiles array whose last entry is read one past the end:
\* counts[counts.length] || 0)
PercentilesPastEnd(counts) ==
    [i \in 1..10 |-> CountAtOrZero(counts, (Len(counts) * i) \div 10)]

\* the percentiles array: counts[Math.floor(counts.length * 0.1)] || 0, ...,
\* counts[Math.floor(counts.length * 0.9)] || 0, counts[counts.length - 1] || 0
\* (Math.floor(n * 0.p) is (n * p) \div 10 for every n below 90)
Percentiles(counts) ==
    [i \in 1..10 |->
        IF i < 10 THEN CountAtOrZero(counts, (Len(counts) * i) \div 10)
        ELSE CountAtOrZero(counts, Len(counts) - 1)]

\* (a rank loop that ranks from the top: (percentiles.length - i) * 10)
PercentileRankInverted(count, percentiles) ==
    IF \E i \in 1..10 : count <= percentiles[i]
    THEN 10 * (11 - (CHOOSE i \in 1..10 :
                        /\ count <= percentiles[i]
                        /\ \A j \in 1..(i - 1) : ~(count <= percentiles[j])))
    ELSE 100

\* (a rank loop that tests count < percentiles[i])
PercentileRankStrict(count, percentiles) ==
    IF \E i \in 1..10 : count < percentiles[i]
    THEN 10 * (CHOOSE i \in 1..10 :
                  /\ count < percentiles[i]
                  /\ \A j \in 1..(i - 1) : ~(count < percentiles[j]))
    ELSE 100

\* the percentile rank loop: the first i with count <= percentiles[i] gives
\* (i + 1) * 10, and 100 when there is none
PercentileRank(count, percentiles) ==
    IF \E i \in 1..10 : count <= percentiles[i]
    THEN 10 * (CHOOSE i \in 1..10 :
                  /\ count <= percentiles[i]
                  /\ \A j \in 1..(i - 1) : ~(count <= percentiles[j]))
    ELSE 100

GridBounds ==
    [latMin |-> LAT_MIN, latMax |-> LAT_MAX, lngMin |-> LON_MIN, lngMax |-> LON_MAX]

\* processCSV of processHeatmapData.js on the data rows of the file
CrimeProcessCSV(rows) ==
    LET crimes      == SelectSeq(rows, CrimeRowKept)
        keys        == KeysInOrder(crimes)
        counts      == Sorted([i \in 1..Len(keys) |-> CellCount(crimes, keys[i])])
        percentiles == Percentiles(counts)
        cell(key)   ==
            LET count == CellCount(crimes, key)
            IN  [latBin     |-> key[1],
                 lngBin     |-> key[2],
                 latMin     |-> LAT_MIN + key[1] * GRID_SIZE,
                 latMax     |-> LAT_MIN + key[1] * GRID_SIZE + GRID_SIZE,
                 lngMin     |-> LON_MIN + key[2] * GRID_SIZE,
                 lngMax     |-> LON_MIN + key[2] * GRID_SIZE + GRID_SIZE,
                 crimeCount |-> count,
                 percentile |-> PercentileRank(count, percentiles)]
    IN  [gridSize    |-> GRID_SIZE,
         cells       |-> [i \in 1..Len(keys) |-> cell(keys[i])],
         bounds      |-> GridBounds,
         percentiles |-> percentiles,
         totalCrimes |-> Len(crimes)]

\* lightingData.reduce((sum, d) => sum + d.lightCount, 0)
RECURSIVE SumLightCount(_)
SumLightCount(data) ==
    IF data = <<>> THEN 0
    ELSE data[1].lightCount.v + SumLightCount(Tail(data))

\* processCSV of processLightingData.js on the data rows of the file
LightingProcessCSV(rows) ==
    LET lightingData == SelectSeq(rows, LightingRowKept)
        counts       == Sorted([i \in 1..Len(lightingData) |->
                                   lightingData[i].lightCount.v])
        percentiles  == Percentiles(counts)
        cell(data)   ==
            LET percentile == PercentileRank(data.lightCount.v, percentiles)
            IN  [latBin        |-> data.latBin.v,
                 lngBin        |-> data.lonBin.v,
                 latMin        |-> LAT_MIN + data.latBin.v * GRID_SIZE,
                 latMax        |-> LAT_MIN + data.latBin.v * GRID_SIZE + GRID_SIZE,
                 lngMin        |-> LON_MIN + data.lonBin.v * GRID_SIZE,
                 lngMax        |-> LON_MIN + data.lonBin.v * GRID_SIZE + GRID_SIZE,
                 lightCount    |-> data.lightCount.v,
                 percentile    |-> percentile,
                 \* 100 - (percentile * 0.9)
                 lightingScore |-> 100 - (percentile * 9) \div 10]
    IN  [gridSize    |-> GRID_SIZE,
         cells       |-> [i \in 1..Len(lightingData) |-> cell(lightingData[i])],
         bounds      |-> GridBounds,
         percentiles |-> percentiles,
         totalLights |-> SumLightCount(lightingData)]

\* What processCSV throws before it reads a data row: parseCSVLine(lines[0])
\* reads line.length of undefined when the file has no non-blank line, and
\* 'Required columns not found' is thrown when an indexOf gives -1.
HeaderError(headers) ==
    IF headers = "none" THEN "TypeError"
    ELSE IF headers = "other" THEN "Required columns not found"
    ELSE "none"

\* the console.log lines of the crime script, by what they report
CrimeLog(rows) ==
    LET crimes == SelectSeq(rows, CrimeRowKept)
    IN  [loaded |-> Len(crimes),
         blocks |-> Len(KeysInOrder(crimes)),
         cells  |-> Len(CrimeProcessCSV(rows).cells)]

\* the console.log lines of the lighting script, by what they report
LightingLog(rows) ==
    LET grid == LightingProcessCSV(rows)
    IN  [loaded |-> Len(SelectSeq(rows, LightingRowKept)),
         cells  |-> Len(grid.cells),
         lights |-> grid.totalLights]

\* Main execution of a script: try { processCSV; writeFileSync; console.log }
\* catch { console.error; process.exit(1) }
MainExecution(headers, log) ==
    IF HeaderError(headers) # "none"
    THEN [exit |-> 1, error |-> HeaderError(headers)]
    ELSE [exit |-> 0, error |-> "none", log |-> log]

----------------------------------------------------------------------------
(* Community reports: lib/reportUtils (its code is the tail of the file      *)
(* lib/processHeatmapData.js, lines 208-303)                                  *)
(*                                                                           *)
(* Times are in hours.  A JavaScript number that need not be an integer is   *)
(* an exact fraction num / den with den > 0.                                 *)

Frac(n, d) == [num |-> n, den |-> d]
\* f >= k, f === g for fractions f, g and an integer k
FracGE(f, k) == f.num >= k * f.den
FracEq(f, g) == f.num * g.den = g.num * f.den

\* the keys of REPORT_TYPES
ReportTypes == {"bad_lighting", "no_sidewalk", "suspicious_area", "blocked_path"}

\* a CommunityReport
Report(id, lat, lng, type, timestamp, upvotes, downvotes, reportedBy) ==
    [id |-> id, lat |-> lat, lng |-> lng, type |-> type,
     description |-> type, timestamp |-> timestamp,
     upvotes |-> upvotes, downvotes |-> downvotes, reportedBy |-> reportedBy]

\* (a confidence that takes a report without votes as undecided, 50)
getConfidenceScoreNeutral(upvotes, downvotes) ==
    LET total == upvotes + downvotes
    IN  IF total = 0 THEN Frac(50, 1) ELSE Frac(upvotes * 100, total)

\* getConfidenceScore: (upvotes / total) * 100, and 0 when total === 0
getConfidenceScore(upvotes, downvotes) ==
    LET total == upvotes + downvotes
    IN  IF total = 0 THEN Frac(0, 1) ELSE Frac(upvotes * 100, total)

\* const fortyEightHours = 48 * 60 * 60 * 1000, in hours
fortyEightHours == 48

\* isReportFresh at Date.now() = t
isReportFresh(timestamp, t) == t - timestamp < fortyEightHours

\* (a filter that takes a report as confirmed from 2 upvotes on)
filterValidReportsTwoVotes(reports, t) ==
    LET valid(report) ==
            /\ isReportFresh(report.timestamp, t) \/ report.upvotes >= 2
            /\ FracGE(getConfidenceScore(report.upvotes, report.downvotes), 50)
    IN  SelectSeq(reports, valid)

\* filterValidReports at Date.now() = t
filterValidReports(reports, t) ==
    LET valid(report) ==
            LET isFresh         == isReportFresh(report.timestamp, t)
                isConfirmed     == report.upvotes >= 3
                confidenceScore == getConfidenceScore(report.upvotes,
                                                      report.downvotes)
            IN  (isFresh \/ isConfirmed) /\ FracGE(confidenceScore, 50)
    IN  SelectSeq(reports, valid)

\* the baseImpact table of calculateReportImpact
baseImpact(type) ==
    CASE type = "bad_lighting"    -> -15
      [] type = "no_sidewalk"     -> -20
      [] type = "suspicious_area" -> -25
      [] type = "blocked_path"    -> -30

\* (an impact scaled by the share of downvotes)
calculateReportImpactByDownvotes(report) ==
    LET confidenceScore == getConfidenceScore(report.downvotes, report.upvotes)
    IN  Frac(baseImpact(report.type) * confidenceScore.num,
             confidenceScore.den * 100)

\* calculateReportImpact: baseImpact * (confidenceScore / 100)
calculateReportImpact(report) ==
    LET confidenceScore == getConfidenceScore(report.upvotes, report.downvotes)
    IN  Frac(baseImpact(report.type) * confidenceScore.num,
             confidenceScore.den * 100)

----------------------------------------------------------------------------
(* Initial state: the page and the map as constructed *)

InitGridBuilders ==
    /\ crimeCsv = <<>>
    /\ lightingCsv = <<>>
    /\ heatmapJson = NULL
    /\ lightingJson = NULL
    /\ csvHeaders = [script \in Scripts |-> "columns"]
    /\ processRun = [script \in Scripts |-> NULL]

InitPage ==
    /\ userLocation = NULL
    /\ routeOrigin = NULL
    /\ routeDestination = NULL
    /\ routeComparison = NULL
    /\ selectedRouteType = NoType
    /\ activeLayers = [heatmap |-> FALSE, lightingHeatmap |-> FALSE]
    /\ lastRouteKeyRef = NoKey
    /\ lastDirectionsResultRef = NULL
    /\ routeComparisonRef = NULL
    /\ heatmapDataRef = NULL
    /\ lightingHeatmapDataRef = NULL
    /\ drawn = NULL
    /\ requests = <<>>
    /\ gridLoads = [heatmap |-> 0, lightingHeatmap |-> 0]
    /\ compareCalls = {}
    /\ callerEvents = {}

\* Index and CommunityReports as mounted: no report, the effect of
\* CommunityReports has run on the empty list
InitReports ==
    /\ communityReports = <<>>
    /\ pendingReport = NULL
    /\ validReports = <<>>
    /\ infoWindowRef = NULL
    /\ reportsFetch = "pending"
    /\ generatedIds = 0
    /\ filteredAt = [t |-> 0]
    /\ now = 0
    /\ reportImpact = NULL

\* fetchNearbyPlaces has not been called
InitPlaces ==
    /\ placesProvider = NULL
    /\ placesCall = NULL

\* no compareRoutes call is followed on its own
InitScores == compareRun = NULL

Init == InitPage /\ InitGridBuilders /\ InitReports /\ InitPlaces /\ InitScores

----------------------------------------------------------------------------
(* Page handlers; each ends with the route effect of the re-rendered Map *)

\* navigator.geolocation answers (or is denied: the default location)
GeolocationResolved(l) ==
    /\ userLocation = NULL
    /\ userLocation' = l
    /\ SetMapState(RouteEffect(MapState, routeOrigin, routeDestination, l,
                               selectedRouteType))
    /\ UNCHANGED <<routeOrigin, routeDestination, routeComparison,
                   selectedRouteType, activeLayers, heatmapDataRef,
                   lightingHeatmapDataRef, gridLoads, compareCalls,
                   callerEvents, gridVars, reportVars,
                   placeVars, scoreVars>>

\* handleRouteRequest(origin, destination); origin may be null
handleRouteRequest(o, d) ==
    /\ ~(o = NULL /\ userLocation = NULL)
    /\ routeOrigin' = o
    /\ routeDestination' = d
    /\ SetMapState(RouteEffect(MapState, o, d, userLocation, selectedRouteType))
    /\ UNCHANGED <<userLocation, routeComparison, selectedRouteType,
                   activeLayers, heatmapDataRef, lightingHeatmapDataRef,
                   gridLoads, compareCalls, callerEvents, gridVars, reportVars,
                   placeVars, scoreVars>>

\* handlePlaceSelect(place)
handlePlaceSelect(l) ==
    /\ userLocation # NULL
    /\ routeDestination' = l
    /\ SetMapState(RouteEffect(MapState, routeOrigin, l, userLocation,
                               selectedRouteType))
    /\ UNCHANGED <<userLocation, routeOrigin, routeComparison,
                   selectedRouteType, activeLayers, heatmapDataRef,
                   lightingHeatmapDataRef, gridLoads, compareCalls,
                   callerEvents, gridVars, reportVars,
                   placeVars, scoreVars>>

\* RouteOptions shows the button of a route type
RouteTypeButtonShown(t) ==
    /\ routeComparison # NULL
    /\ Len(routeComparison.routes) > 0
    /\ Selection(routeComparison, t) # NULL
    /\ Selection(routeComparison, t).route # NULL

\* handleRouteTypeSelect(type), from a button of RouteOptions
handleRouteTypeSelect(t) ==
    /\ RouteTypeButtonShown(t)
    /\ selectedRouteType' = t
    /\ SetMapState(RouteEffect(MapState, routeOrigin, routeDestination,
                               userLocation, t))
    /\ UNCHANGED <<userLocation, routeOrigin, routeDestination,
                   routeComparison, activeLayers, heatmapDataRef,
                   lightingHeatmapDataRef, gridLoads, compareCalls,
                   callerEvents, gridVars, reportVars,
                   placeVars, scoreVars>>

----------------------------------------------------------------------------
(* The directions callback *)

\* (the callback without the length test)
CallbackSucceedsAnyLength(status, n) == status = "OK"

\* status === 'OK' && result && result.routes && result.routes.length > 0
CallbackSucceeds(status, n) == status = "OK" /\ n > 0

\* (a call site that hands over a placeholder grid when none is loaded)
LightingGridArgOrPlaceholder ==
    IF lightingHeatmapDataRef = NULL THEN [cells |-> 1]
    ELSE lightingHeatmapDataRef

\* the grids handed to compareRoutes: the refs, read when the callback runs
CrimeGridArg == heatmapDataRef
LightingGridArg == lightingHeatmapDataRef

\* handleRoutesCalculated(comparison), in the closure of the render that
\* issued the request: selAtIssue is that render's selectedRouteType
SelectionAfterRoutes(comparison, selAtIssue) ==
    IF selAtIssue = NoType
    THEN IF comparison.balanced # NULL /\ comparison.balanced.route # NULL
         THEN "balanced"
         ELSE IF comparison.shortest # NULL /\ comparison.shortest.route # NULL
         THEN "shortest"
         ELSE IF comparison.safest # NULL /\ comparison.safest.route # NULL
         THEN "safest"
         ELSE selectedRouteType
    ELSE selectedRouteType

\* what the callback draws: the only route, or the route to display
DrawnByCallback(result, comparison, selAtIssue) ==
    IF Len(result.routes) = 1
    THEN [route |-> result.routes[1], type |-> selAtIssue, cached |-> FALSE]
    ELSE IF RouteToDisplay(comparison, selAtIssue) # NULL
            /\ RouteToDisplay(comparison, selAtIssue).route # NULL
    THEN [route |-> RouteToDisplay(comparison, selAtIssue).route,
          type |-> selAtIssue, cached |-> FALSE]
    ELSE drawn

\* the (origin, destination) pair the page asks for now
CurrentPair == <<EffectiveOrigin(routeOrigin, userLocation), routeDestination>>

\* the pair of request k
RequestPair(k) == <<requests[k].origin, requests[k].dest>>

\* what the provider answered: routes, no route, or an error status
Outcome(status, n) ==
    IF status # "OK" THEN "failed" ELSE IF n = 0 THEN "empty" ELSE "ok"

\* directionsService.route(routeRequest, (result, status) => ...) answers
\* request k with a status and n alternatives
DirectionsCallback(k, status, n) ==
    /\ requests[k].outcome = "pending"
    /\ \E pick \in Picks(n) :
       LET answered == [requests EXCEPT ![k].outcome = Outcome(status, n)]
           result   == DirectionsResult(k, n)
           sel0     == requests[k].sel
       IN
       IF CallbackSucceeds(status, n)
       THEN /\ compareCalls' = compareCalls \cup
                   {[req |-> k, len |-> Len(result.routes)]}
            /\ IF CompareRoutesThrows(result.routes)
               THEN \* caught: console.error('Error processing routes')
                    /\ SetMapState([MapState EXCEPT !.dir = result,
                                                    !.reqs = answered])
                    /\ UNCHANGED <<routeComparison, selectedRouteType,
                                   callerEvents>>
               ELSE LET comparison == compareRoutes(result.routes, CrimeGridArg,
                                                    LightingGridArg, pick)
                        sel1 == SelectionAfterRoutes(comparison, sel0)
                        m1 == [MapState EXCEPT
                                 !.dir = result,
                                 !.cmp = comparison,
                                 !.drawn = DrawnByCallback(result, comparison, sel0),
                                 !.reqs = answered]
                    IN  /\ routeComparison' = comparison
                        /\ selectedRouteType' = sel1
                        /\ callerEvents' = callerEvents \cup
                              {[kind |-> "routes", req |-> k,
                                len |-> Len(comparison.routes),
                                degraded |-> comparison.degraded,
                                wasCurrent |-> RequestPair(k) = CurrentPair,
                                crimeMissing |->
                                    GridUnavailable(heatmapDataRef),
                                lightingMissing |->
                                    GridUnavailable(lightingHeatmapDataRef)]}
                        /\ SetMapState(RouteEffect(m1, routeOrigin,
                                                   routeDestination,
                                                   userLocation, sel1))
       ELSE \* console.error('Directions request failed due to ' + status)
            /\ SetMapState([MapState EXCEPT !.reqs = answered])
            /\ UNCHANGED <<routeComparison, selectedRouteType, compareCalls,
                           callerEvents>>
    /\ UNCHANGED <<userLocation, routeOrigin, routeDestination, activeLayers,
                   heatmapDataRef, lightingHeatmapDataRef, gridLoads, gridVars, reportVars,
                   placeVars, scoreVars>>

----------------------------------------------------------------------------
(* Safety layers and the grid-loading effects *)

Layers == {"heatmap", "lightingHeatmap"}

\* the grid ref of a layer
GridRef(layer) ==
    IF layer = "heatmap" THEN heatmapDataRef ELSE lightingHeatmapDataRef

\* handleLayerToggle(layer), then the loading effect of the layer:
\* if (activeLayers[layer] && !data) load
handleLayerToggle(layer) ==
    /\ activeLayers' = [activeLayers EXCEPT ![layer] = ~@]
    /\ IF ~activeLayers[layer] /\ GridRef(layer) = NULL
       THEN /\ gridLoads[layer] < MaxGridLoads
            /\ gridLoads' = [gridLoads EXCEPT ![layer] = @ + 1]
       ELSE UNCHANGED gridLoads
    /\ UNCHANGED <<userLocation, routeOrigin, routeDestination,
                   routeComparison, selectedRouteType, mapVars, requests,
                   compareCalls, callerEvents, gridVars, reportVars,
                   placeVars, scoreVars>>

\* processCrimeDataToGrid() / processLightingDataToGrid() resolves
GridLoaded(layer, data) ==
    /\ gridLoads[layer] > 0
    /\ gridLoads' = [gridLoads EXCEPT ![layer] = @ - 1]
    /\ IF layer = "heatmap"
       THEN heatmapDataRef' = data /\ UNCHANGED lightingHeatmapDataRef
       ELSE lightingHeatmapDataRef' = data /\ UNCHANGED heatmapDataRef
    /\ UNCHANGED <<indexVars, lastRouteKeyRef, lastDirectionsResultRef,
                   routeComparisonRef, drawn, requests, compareCalls,
                   callerEvents, gridVars, reportVars,
                   placeVars, scoreVars>>

\* ... or rejects: console.error, toast.error
GridLoadFailed(layer) ==
    /\ gridLoads[layer] > 0
    /\ gridLoads' = [gridLoads EXCEPT ![layer] = @ - 1]
    /\ UNCHANGED <<indexVars, mapVars, requests, compareCalls, callerEvents,
                   gridVars, reportVars,
                   placeVars, scoreVars>>

----------------------------------------------------------------------------

\* The page with the safety layers left as constructed (both off, no grid
\* loaded): route requests, selections and directions answers.
Next ==
    \/ \E l \in Locs : GeolocationResolved(l)
    \/ \E o \in Locs \cup {NULL}, d \in Locs : handleRouteRequest(o, d)
    \/ \E l \in Locs : handlePlaceSelect(l)
    \/ \E t \in RouteTypes : handleRouteTypeSelect(t)
    \/ \E k \in 1..Len(requests), status \in DirectionsStatuses,
          n \in 0..MaxRoutes : DirectionsCallback(k, status, n)

Spec == Init /\ [][Next]_vars

\* The page with the safety layers switched on and off and their grids
\* loading while routes are requested and scored.
ScoredBound == Len(requests') <= MaxScoredRequests

NextLayers ==
    \/ \E l \in ScoredOrigins : GeolocationResolved(l) /\ ScoredBound
    \/ \E l \in Locs : handlePlaceSelect(l) /\ ScoredBound
    \/ \E o \in ScoredOrigins \cup {NULL}, d \in Locs :
          handleRouteRequest(o, d) /\ ScoredBound
    \/ \E t \in RouteTypes : handleRouteTypeSelect(t) /\ ScoredBound
    \/ \E k \in 1..Len(requests), status \in DirectionsStatuses,
          n \in 0..MaxRoutes : DirectionsCallback(k, status, n) /\ ScoredBound
    \/ \E layer \in Layers : handleLayerToggle(layer)
    \/ \E layer \in Layers, data \in LoadedGrids : GridLoaded(layer, data)
    \/ \E layer \in Layers : GridLoadFailed(layer)

SpecLayers == Init /\ [][NextLayers]_vars

----------------------------------------------------------------------------
(* Route requests: properties *)

\* the latest directions request
LatestRequest == Len(requests)

\* the (origin, destination) pair a comparison was computed for
ComparisonPair(comparison) == RequestPair(ComparisonReq(comparison))

\* a result carries an explicit stale mark
MarkedStale(comparison) ==
    "stale" \in DOMAIN comparison /\ comparison.stale

\* C1: last request wins.  A response to a request that was superseded by a
\* request for another (origin, destination) pair is discarded: it is not
\* passed to onRoutesCalculated, and once the superseded request and the
\* latest request have both been answered (the latest with routes) the
\* stored comparison is the one computed for the latest pair.
C1_LastRequestWins ==
    /\ \A e \in callerEvents : e.wasCurrent
    /\ \A a \in 1..Len(requests) :
          ( /\ a < LatestRequest
            /\ RequestPair(a) # RequestPair(LatestRequest)
            /\ requests[a].outcome # "pending"
            /\ requests[LatestRequest].outcome = "ok" )
          => /\ routeComparisonRef # NULL
             /\ ComparisonPair(routeComparisonRef) = RequestPair(LatestRequest)

\* C2: once a comparison is stored for the current (origin, destination)
\* pair, a step that changes only selectedRouteType (same pair) issues no
\* new directions request.
C2_SelectionChangeIssuesNoRequest ==
    [][ ( /\ selectedRouteType' # selectedRouteType
          /\ routeDestination # NULL
          /\ CurrentPair' = CurrentPair
          /\ routeComparisonRef' # NULL
          /\ ComparisonPair(routeComparisonRef') = CurrentPair )
        => Len(requests') = Len(requests) ]_vars

\* C3: after the request for the current pair has failed, the comparison the
\* page holds is not the comparison of another pair, unless marked stale.
C3_NoUnmarkedStaleComparison ==
    ( /\ requests # <<>>
      /\ requests[LatestRequest].outcome \in {"failed", "empty"}
      /\ RequestPair(LatestRequest) = CurrentPair
      /\ routeComparison # NULL )
    => \/ ComparisonPair(routeComparison) = CurrentPair
       \/ MarkedStale(routeComparison)

\* C4: every directions answer with a non-OK status or with zero routes is
\* delivered to the page as a failure of that request.
C4_FailureSurfacedToCaller ==
    \A k \in 1..Len(requests) :
        requests[k].outcome \in {"failed", "empty"}
        => \E e \in callerEvents : e.req = k /\ e.kind = "failure"

\* C5: compareRoutes is never called with an empty route list, and no
\* comparison delivered through onRoutesCalculated has an empty routes array.
C5_CompareRoutesNeverEmpty ==
    /\ \A c \in compareCalls : c.len >= 1
    /\ \A e \in callerEvents : e.len >= 1
    /\ routeComparison # NULL => Len(routeComparison.routes) >= 1

\* C5 witness: the provider answered one request with status OK and no route
\* and another with routes, which were compared and delivered.
C5_Witness ==
    /\ \E k \in 1..Len(requests) : requests[k].outcome = "empty"
    /\ \E c \in compareCalls : \E e \in callerEvents : e.req = c.req

----------------------------------------------------------------------------
(* The grid builders applied to bounded inputs *)

\* one of the two scripts is given a file; the other file has no data row
InitGrid ==
    /\ InitPage /\ InitReports /\ InitPlaces /\ InitScores
    /\ \/ \E file \in CsvFiles(CrimeRowSamples) :
             /\ crimeCsv = file.rows
             /\ lightingCsv = <<>>
             /\ csvHeaders = [heatmap |-> file.headers, lighting |-> "columns"]
       \/ \E file \in CsvFiles(LightingRowSamples) :
             /\ crimeCsv = <<>>
             /\ lightingCsv = file.rows
             /\ csvHeaders = [heatmap |-> "columns", lighting |-> file.headers]
    /\ heatmapJson = NULL
    /\ lightingJson = NULL
    /\ processRun = [script \in Scripts |-> NULL]

\* node src/lib/processHeatmapData.js
RunProcessHeatmapData ==
    /\ processRun.heatmap = NULL
    /\ processRun' = [processRun EXCEPT
                        !.heatmap = MainExecution(csvHeaders.heatmap,
                                                  CrimeLog(crimeCsv))]
    \* the output file is written only when processCSV returned
    /\ heatmapJson' = IF processRun'.heatmap.exit = 0
                      THEN CrimeProcessCSV(crimeCsv)
                      ELSE heatmapJson
    /\ UNCHANGED <<indexVars, mapVars, envVars, crimeCsv, lightingCsv,
                   lightingJson, csvHeaders, reportVars, placeVars, scoreVars>>

\* node src/lib/processLightingData.js
RunProcessLightingData ==
    /\ processRun.lighting = NULL
    /\ processRun' = [processRun EXCEPT
                        !.lighting = MainExecution(csvHeaders.lighting,
                                                   LightingLog(lightingCsv))]
    /\ lightingJson' = IF processRun'.lighting.exit = 0
                       THEN LightingProcessCSV(lightingCsv)
                       ELSE lightingJson
    /\ UNCHANGED <<indexVars, mapVars, envVars, crimeCsv, lightingCsv,
                   heatmapJson, csvHeaders, reportVars, placeVars, scoreVars>>

NextGrid == RunProcessHeatmapData \/ RunProcessLightingData

SpecGrid == InitGrid /\ [][NextGrid]_vars

----------------------------------------------------------------------------
(* Grid builders: properties *)

\* a point lies inside the declared bounding box of the grid
InBox(row) ==
    /\ row.lat.v >= LAT_MIN /\ row.lat.v <= LAT_MAX
    /\ row.lng.v >= LON_MIN /\ row.lng.v <= LON_MAX

\* the sum of the crime counts of a sequence of cells
RECURSIVE SumCrimeCount(_)
SumCrimeCount(cells) ==
    IF cells = <<>> THEN 0
    ELSE cells[1].crimeCount + SumCrimeCount(Tail(cells))

\* the counts of the cells of a built grid, crime or lighting
CrimeCounts == {heatmapJson.cells[i].crimeCount : i \in 1..Len(heatmapJson.cells)}
LightCounts == {lightingJson.cells[i].lightCount : i \in 1..Len(lightingJson.cells)}

\* C7: the counts of the cells of the crime grid add up to the number of
\* kept rows whose point lies inside the grid's bounding box.
C7_CountSumIsInBoxPoints ==
    heatmapJson # NULL =>
        SumCrimeCount(heatmapJson.cells) =
            Cardinality({i \in 1..Len(crimeCsv) :
                            CrimeRowKept(crimeCsv[i]) /\ InBox(crimeCsv[i])})

\* C8: every cell of the crime grid has non-negative bin indices and a
\* rectangle inside the bounds the grid declares.
C8_CellsInsideBounds ==
    heatmapJson # NULL =>
        \A i \in 1..Len(heatmapJson.cells) :
            LET cell == heatmapJson.cells[i] IN
            /\ cell.latBin >= 0 /\ cell.lngBin >= 0
            /\ cell.latMin >= heatmapJson.bounds.latMin
            /\ cell.latMax <= heatmapJson.bounds.latMax
            /\ cell.lngMin >= heatmapJson.bounds.lngMin
            /\ cell.lngMax <= heatmapJson.bounds.lngMax

\* C9 as stated: when all cells of a built grid have the same count, every
\* cell has percentile 100 (crime grid and lighting grid).
C9_AllEqualCountsRank100 ==
    /\ (heatmapJson # NULL /\ Cardinality(CrimeCounts) = 1) =>
          \A i \in 1..Len(heatmapJson.cells) :
              heatmapJson.cells[i].percentile = 100
    /\ (lightingJson # NULL /\ Cardinality(LightCounts) = 1) =>
          \A i \in 1..Len(lightingJson.cells) :
              lightingJson.cells[i].percentile = 100

\* C9 amended: when all cells of a built grid have the same count, every
\* cell has percentile 10 (crime grid and lighting grid).
C9_AllEqualCountsRank10 ==
    /\ (heatmapJson # NULL /\ Cardinality(CrimeCounts) = 1) =>
          \A i \in 1..Len(heatmapJson.cells) :
              heatmapJson.cells[i].percentile = 10
    /\ (lightingJson # NULL /\ Cardinality(LightCounts) = 1) =>
          \A i \in 1..Len(lightingJson.cells) :
              lightingJson.cells[i].percentile = 10

\* C9 witness: a crime grid of at least two cells, all with the same count
\* greater than one, was built.
C9_Witness ==
    /\ heatmapJson # NULL
    /\ Len(heatmapJson.cells) >= 2
    /\ \A i \in 1..Len(heatmapJson.cells) :
          heatmapJson.cells[i].crimeCount = 2

\* C10: in a built grid a cell with a greater count has a percentile at
\* least as great, and every percentile is one of 10, 20, ..., 100.
C10_PercentileMonotone ==
    /\ heatmapJson # NULL =>
          \A i, j \in 1..Len(heatmapJson.cells) :
              LET a == heatmapJson.cells[i]
                  b == heatmapJson.cells[j]
              IN  /\ a.crimeCount > b.crimeCount => a.percentile >= b.percentile
                  /\ a.percentile \in {10 * d : d \in 1..10}
    /\ lightingJson # NULL =>
          \A i, j \in 1..Len(lightingJson.cells) :
              LET a == lightingJson.cells[i]
                  b == lightingJson.cells[j]
              IN  /\ a.lightCount > b.lightCount => a.percentile >= b.percentile
                  /\ a.percentile \in {10 * d : d \in 1..10}

\* C10 witness: a lighting grid was built in which a cell with a greater
\* count has a strictly greater percentile.
C10_Witness ==
    /\ lightingJson # NULL
    /\ \E i, j \in 1..Len(lightingJson.cells) :
          /\ lightingJson.cells[i].lightCount > lightingJson.cells[j].lightCount
          /\ lightingJson.cells[i].percentile > lightingJson.cells[j].percentile

\* the thresholds of a grid are ten, non-decreasing, and end with the
\* greatest of the counts (0 when there is no count)
TenThresholds(percentiles, counts) ==
    /\ DOMAIN percentiles = 1..10
    /\ \A i \in 1..9 : percentiles[i] <= percentiles[i + 1]
    /\ \A c \in counts : c <= percentiles[10]
    /\ percentiles[10] \in counts \cup {0}
    /\ counts # {} => percentiles[10] \in counts

\* C11: the percentile thresholds of a built grid are exactly 10 entries,
\* non-decreasing, and the last entry is the greatest cell count (crime grid
\* and lighting grid; zero, one and fewer than ten cells included).
C11_TenThresholdsNonDecreasing ==
    /\ heatmapJson # NULL => TenThresholds(heatmapJson.percentiles, CrimeCounts)
    /\ lightingJson # NULL => TenThresholds(lightingJson.percentiles, LightCounts)

\* C11 witness: a crime grid of three cells with different counts was built,
\* and its thresholds are not all equal.
C11_Witness ==
    /\ heatmapJson # NULL
    /\ Len(heatmapJson.cells) = 3
    /\ Cardinality(CrimeCounts) >= 2
    /\ heatmapJson.percentiles[1] < heatmapJson.percentiles[10]

\* C12: in a built lighting grid a cell with a higher percentile has a
\* higher lightingScore, and every lightingScore lies in 0..100.
C12_LightingScoreRisesWithPercentile ==
    lightingJson # NULL =>
        \A i, j \in 1..Len(lightingJson.cells) :
            LET a == lightingJson.cells[i]
                b == lightingJson.cells[j]
            IN  /\ a.percentile > b.percentile =>
                      a.lightingScore > b.lightingScore
                /\ a.lightingScore >= 0 /\ a.lightingScore <= 100

\* the rows of a file that give a valid point: none when lines[0] is not a
\* header with the required columns
ValidCrimeRows ==
    IF csvHeaders.heatmap = "columns" THEN SelectSeq(crimeCsv, CrimeRowKept)
    ELSE <<>>
ValidLightingRows ==
    IF csvHeaders.lighting = "columns"
    THEN SelectSeq(lightingCsv, LightingRowKept)
    ELSE <<>>

\* C13: a script run on a file that yields no valid point ends without
\* throwing and writes a grid with zero cells, ten thresholds and total 0.
C13_EmptyDatasetGivesEmptyGrid ==
    /\ (processRun.heatmap # NULL /\ ValidCrimeRows = <<>>) =>
          /\ processRun.heatmap.exit = 0
          /\ heatmapJson # NULL
          /\ Len(heatmapJson.cells) = 0
          /\ DOMAIN heatmapJson.percentiles = 1..10
          /\ heatmapJson.totalCrimes = 0
    /\ (processRun.lighting # NULL /\ ValidLightingRows = <<>>) =>
          /\ processRun.lighting.exit = 0
          /\ lightingJson # NULL
          /\ Len(lightingJson.cells) = 0
          /\ DOMAIN lightingJson.percentiles = 1..10
          /\ lightingJson.totalLights = 0

\* a row the ingestion skips as malformed: a missing field, a coordinate or
\* count that is not a number, a coordinate outside the accepted range
MalformedCrimeRow(row) ==
    \/ row.short
    \/ isNaN(row.lat) \/ isNaN(row.lng)
    \/ row.lat.v < ROW_LAT_MIN \/ row.lat.v > ROW_LAT_MAX
    \/ row.lng.v < ROW_LON_MIN \/ row.lng.v > ROW_LON_MAX
MalformedLightingRow(row) ==
    \/ row.short
    \/ isNaN(row.latBin) \/ isNaN(row.lonBin) \/ isNaN(row.lightCount)

\* a run reports that it skipped k rows
ReportsSkipped(run, k) ==
    /\ "log" \in DOMAIN run
    /\ "skipped" \in DOMAIN run.log
    /\ run.log.skipped = k

\* C14: a script run on a file with k malformed rows does not abort, skips
\* each malformed row, processes all the other rows, and reports k as the
\* number of skipped rows.
C14_MalformedRowsSkippedAndCounted ==
    /\ (processRun.heatmap # NULL /\ csvHeaders.heatmap = "columns") =>
          LET malformed == {i \in 1..Len(crimeCsv) :
                               MalformedCrimeRow(crimeCsv[i])}
              recent    == {i \in 1..Len(crimeCsv) :
                               ~MalformedCrimeRow(crimeCsv[i]) /\ ~crimeCsv[i].old}
          IN  /\ processRun.heatmap.exit = 0
              /\ heatmapJson.totalCrimes = Cardinality(recent)
              /\ ReportsSkipped(processRun.heatmap, Cardinality(malformed))
    /\ (processRun.lighting # NULL /\ csvHeaders.lighting = "columns") =>
          LET malformed == {i \in 1..Len(lightingCsv) :
                               MalformedLightingRow(lightingCsv[i])}
          IN  /\ processRun.lighting.exit = 0
              /\ Len(lightingJson.cells) = Len(lightingCsv) - Cardinality(malformed)
              /\ ReportsSkipped(processRun.lighting, Cardinality(malformed))

----------------------------------------------------------------------------
(* reportUtils applied to bounded inputs: CommunityReports is mounted with *)
(* a list of reports, and reports are scored                               *)

\* reports in a list given to CommunityReports
MaxListed == 2
\* votes of one kind on a report
MaxVotes == 3

\* timestamps: 47, 48 and 49 hours before Date.now() = 0
TimestampSamples == {-47, -48, -49}

\* (upvotes, downvotes) of the reports in lists
VoteSamples ==
    {<<0, 0>>, <<1, 0>>, <<1, 1>>, <<1, 2>>, <<2, 0>>, <<3, 3>>, <<3, 4>>}

\* lists of reports of one type; the id of a report is its position
ReportLists ==
    UNION {[1..k -> {Report(0, 0, 0, "bad_lighting", ts, v[1], v[2], "user") :
                        ts \in TimestampSamples, v \in VoteSamples}]
           : k \in 0..MaxListed}
WithIds(reports) == [i \in 1..Len(reports) |-> [reports[i] EXCEPT !.id = i]]

\* single reports of every type and every vote pair up to MaxVotes, and
\* 10 upvotes without a downvote
SingleReports ==
    {<<Report(1, 0, 0, type, ts, v[1], v[2], "user")>> :
        type \in ReportTypes, ts \in TimestampSamples,
        v \in ((0..MaxVotes) \X (0..MaxVotes)) \cup {<<10, 0>>}}

InitReportUtils ==
    /\ InitPage /\ InitGridBuilders /\ InitPlaces /\ InitScores
    /\ \/ \E reports \in ReportLists : communityReports = WithIds(reports)
       \/ communityReports \in SingleReports
    /\ pendingReport = NULL
    /\ validReports = <<>>
    /\ infoWindowRef = NULL
    /\ reportsFetch = "pending"
    /\ generatedIds = 0
    /\ filteredAt = NULL
    /\ now = 0
    /\ reportImpact = NULL

\* the effect of CommunityReports: setValidReports(filterValidReports(reports))
ValidReportsEffect(reports) ==
    /\ validReports' = filterValidReports(reports, now)
    /\ filteredAt' = [t |-> now]

\* CommunityReports is mounted with the list
MountCommunityReports ==
    /\ filteredAt = NULL
    /\ ValidReportsEffect(communityReports)
    /\ UNCHANGED <<indexVars, mapVars, envVars, gridVars, placeVars, scoreVars,
                   communityReports, pendingReport, infoWindowRef,
                   reportsFetch, generatedIds, now, reportImpact>>

\* getConfidenceScore and calculateReportImpact are applied to a report
ScoreReport(i) ==
    /\ reportImpact = NULL
    /\ reportImpact' =
          [report     |-> communityReports[i],
           confidence |-> getConfidenceScore(communityReports[i].upvotes,
                                             communityReports[i].downvotes),
           impact     |-> calculateReportImpact(communityReports[i])]
    /\ UNCHANGED <<indexVars, mapVars, envVars, gridVars, placeVars, scoreVars,
                   communityReports, pendingReport, validReports,
                   infoWindowRef, reportsFetch, generatedIds, filteredAt, now>>

NextReportUtils ==
    \/ MountCommunityReports
    \/ \E i \in 1..Len(communityReports) : ScoreReport(i)

SpecReportUtils == InitReportUtils /\ [][NextReportUtils]_vars

----------------------------------------------------------------------------
(* The page with its community reports: Index, Map (report placement) and   *)
(* CommunityReports.  The click listener of Map is registered again after   *)
(* every render, so a map click runs with the props of the last render; the *)
(* Confirm button of an open placement confirmation keeps the onMapClick of *)
(* the render in which the map was clicked.                                 *)

\* reports placed in one run
MaxPlaced == 1
\* hours the clock advances in one step, and the steps in one run
TickHours == 24
MaxTicks == 3

\* the content of /data/community-reports.json
ReportFiles ==
    { <<>>,
      <<Report(1, 0, 0, "bad_lighting", 0, 1, 0, "user")>>,
      <<Report(1, 0, 0, "bad_lighting", -24, 2, 1, "user"),
        Report(2, 0, 0, "blocked_path", -48, 3, 1, "user")>> }

\* where the user clicks the map
ClickSpots == {[lat |-> 5, lng |-> 5]}

\* the types the report modal submits
SubmittedTypes == {"bad_lighting", "blocked_path"}

\* everything but communityReports, validReports and filteredAt
ReportFrame == <<indexVars, mapVars, envVars, gridVars, placeVars, scoreVars,
                 reportImpact>>

\* Promise.all(...).then(([crime, lighting, reports]) => setCommunityReports(reports))
ReportsFetched(file) ==
    /\ reportsFetch = "pending"
    /\ reportsFetch' = "done"
    /\ communityReports' = file
    /\ ValidReportsEffect(file)
    /\ UNCHANGED <<ReportFrame, pendingReport, infoWindowRef, generatedIds, now>>

\* the catch of the data load
ReportsFetchFailed ==
    /\ reportsFetch = "pending"
    /\ reportsFetch' = "failed"
    /\ UNCHANGED <<ReportFrame, communityReports, validReports, filteredAt,
                   pendingReport, infoWindowRef, generatedIds, now>>

\* handleReportSubmit(type, description)
handleReportSubmit(type) ==
    /\ pendingReport' = [type |-> type, description |-> type]
    /\ UNCHANGED <<ReportFrame, communityReports, validReports, filteredAt,
                   infoWindowRef, reportsFetch, generatedIds, now>>

\* generateReportId(): a new id each time
generateReportId == 100 + generatedIds

\* handleMapClick(lat, lng) of the render whose state the closure holds
handleMapClick(closure) ==
    LET newReport == Report(generateReportId, closure.lat, closure.lng,
                            closure.pendingReport.type, now, 0, 0,
                            "current-user")
    IN  /\ closure.pendingReport # NULL
        /\ communityReports' = Append(closure.communityReports, newReport)
        /\ pendingReport' = NULL
        /\ generatedIds' = generatedIds + 1
        /\ ValidReportsEffect(communityReports')

\* (a click listener that never enters report mode: the click places the
\* pending report at once)
MapClickPlacesAtOnce(spot) ==
    IF pendingReport # NULL /\ generatedIds < MaxPlaced
    THEN /\ handleMapClick([lat |-> spot.lat, lng |-> spot.lng,
                            communityReports |-> communityReports,
                            pendingReport |-> pendingReport])
         /\ UNCHANGED <<ReportFrame, infoWindowRef, reportsFetch, now>>
    ELSE UNCHANGED vars

\* The click listener of Map.  In report mode it opens the confirmation,
\* whose Confirm button calls the onMapClick of this render: handleMapClick
\* with this render's communityReports and pendingReport.  Otherwise it calls
\* onMapClick at once, and handleMapClick does nothing without a pending report.
MapClick(spot) ==
    /\ infoWindowRef' =
          IF pendingReport # NULL
          THEN [lat |-> spot.lat, lng |-> spot.lng,
                communityReports |-> communityReports,
                pendingReport |-> pendingReport]
          ELSE infoWindowRef
    /\ UNCHANGED <<ReportFrame, communityReports, validReports, filteredAt,
                   pendingReport, reportsFetch, generatedIds, now>>

\* the Confirm button of the placement confirmation
ConfirmClick ==
    /\ infoWindowRef # NULL
    /\ generatedIds < MaxPlaced
    /\ handleMapClick(infoWindowRef)
    /\ infoWindowRef' = NULL
    /\ UNCHANGED <<ReportFrame, reportsFetch, now>>

\* the Cancel button of the placement confirmation
CancelClick ==
    /\ infoWindowRef # NULL
    /\ infoWindowRef' = NULL
    /\ UNCHANGED <<ReportFrame, communityReports, validReports, filteredAt,
                   pendingReport, reportsFetch, generatedIds, now>>

\* the reports CommunityReports shows, with their vote and dismiss buttons
Displayed == {validReports[k].id : k \in 1..Len(validReports)}

\* (an updater that counts an 'up' vote among the downvotes)
VoteUpdaterCountsDown(reports, reportId, voteType) ==
    [i \in 1..Len(reports) |->
        IF reports[i].id = reportId
        THEN [reports[i] EXCEPT !.downvotes = @ + 1]
        ELSE reports[i]]

\* the updater of handleVote
VoteUpdater(reports, reportId, voteType) ==
    [i \in 1..Len(reports) |->
        IF reports[i].id = reportId
        THEN [reports[i] EXCEPT
                 !.upvotes   = IF voteType = "up" THEN @ + 1 ELSE @,
                 !.downvotes = IF voteType = "down" THEN @ + 1 ELSE @]
        ELSE reports[i]]

\* handleVote(reportId, voteType), from a button of CommunityReports
handleVote(reportId, voteType) ==
    /\ reportId \in Displayed
    /\ \A i \in 1..Len(communityReports) :
          communityReports[i].id = reportId =>
              communityReports[i].upvotes + communityReports[i].downvotes
                  <= MaxVotes
    /\ communityReports' = VoteUpdater(communityReports, reportId, voteType)
    /\ ValidReportsEffect(communityReports')
    /\ UNCHANGED <<ReportFrame, pendingReport, infoWindowRef, reportsFetch,
                   generatedIds, now>>

\* handleDismissReport(reportId), from a button of CommunityReports
handleDismissReport(reportId) ==
    /\ reportId \in Displayed
    /\ communityReports' =
          LET stays(r) == r.id # reportId IN SelectSeq(communityReports, stays)
    /\ ValidReportsEffect(communityReports')
    /\ UNCHANGED <<ReportFrame, pendingReport, infoWindowRef, reportsFetch,
                   generatedIds, now>>

\* time passes: no state of the page changes
Tick ==
    /\ now < MaxTicks * TickHours
    /\ now' = now + TickHours
    /\ UNCHANGED <<ReportFrame, communityReports, validReports, filteredAt,
                   pendingReport, infoWindowRef, reportsFetch, generatedIds>>

NextReports ==
    \/ \E file \in ReportFiles : ReportsFetched(file)
    \/ ReportsFetchFailed
    \/ \E type \in SubmittedTypes : handleReportSubmit(type)
    \/ \E spot \in ClickSpots : MapClick(spot)
    \/ ConfirmClick
    \/ CancelClick
    \/ \E reportId \in Displayed, voteType \in {"up", "down"} :
          handleVote(reportId, voteType)
    \/ \E reportId \in Displayed : handleDismissReport(reportId)
    \/ Tick

SpecReports == Init /\ [][NextReports]_vars

----------------------------------------------------------------------------
(* Community reports: properties *)

\* a report is valid at time t: (age < 48 hours or upvotes >= 3) and
\* confidence >= 50, the confidence being 0 without votes
ValidAt(report, t) ==
    /\ t - report.timestamp < 48 \/ report.upvotes >= 3
    /\ report.upvotes + report.downvotes > 0
    /\ 100 * report.upvotes >= 50 * (report.upvotes + report.downvotes)

\* the k-th smallest element of a set of numbers
KthOf(S, k) == CHOOSE i \in S : Cardinality({j \in S : j < i}) = k - 1

\* C15: the list kept by the last run of filterValidReports is exactly the
\* reports of the list that are valid at that time, in the order of the list.
C15_FilterKeepsExactlyValidReports ==
    filteredAt # NULL =>
        LET kept == {i \in 1..Len(communityReports) :
                        ValidAt(communityReports[i], filteredAt.t)}
        IN  /\ Len(validReports) = Cardinality(kept)
            /\ \A k \in 1..Len(validReports) :
                  validReports[k] = communityReports[KthOf(kept, k)]

\* C15 witness: of a list of two reports the filter kept the second only,
\* a report older than 48 hours with 3 upvotes.
C15_Witness ==
    /\ filteredAt # NULL
    /\ Len(communityReports) = 2
    /\ validReports = <<communityReports[2]>>
    /\ communityReports[2].upvotes = 3
    /\ filteredAt.t - communityReports[2].timestamp > 48

\* C16: a report with 0 upvotes and 0 downvotes has confidence 0 and
\* impact 0 and is not kept by filterValidReports, whatever its age and type.
C16_NoVotesNoConfidence ==
    /\ filteredAt # NULL =>
          \A k \in 1..Len(validReports) :
              validReports[k].upvotes + validReports[k].downvotes > 0
    /\ (reportImpact # NULL /\ reportImpact.report.upvotes = 0
                            /\ reportImpact.report.downvotes = 0) =>
          /\ FracEq(reportImpact.confidence, Frac(0, 1))
          /\ FracEq(reportImpact.impact, Frac(0, 1))

\* C16 witness: a report without votes, less than 48 hours old, was scored
\* and the filter ran on the list that holds it.
C16_Witness ==
    /\ filteredAt # NULL
    /\ reportImpact # NULL
    /\ reportImpact.report.upvotes = 0 /\ reportImpact.report.downvotes = 0
    /\ filteredAt.t - reportImpact.report.timestamp < 48
    /\ \E i \in 1..Len(communityReports) : communityReports[i] = reportImpact.report

\* the impact table of the claim
ClaimedBaseImpact ==
    [bad_lighting |-> -15, no_sidewalk |-> -20, suspicious_area |-> -25,
     blocked_path |-> -30]

\* C17: for a report with at least one vote the impact is
\* baseImpact[type] * upvotes / (upvotes + downvotes): never positive, never
\* below baseImpact[type], and baseImpact[type] when there is no downvote.
C17_ImpactIsScaledBaseImpact ==
    (reportImpact # NULL /\ reportImpact.report.upvotes
                              + reportImpact.report.downvotes > 0) =>
        LET report == reportImpact.report
            base   == ClaimedBaseImpact[report.type]
            impact == reportImpact.impact
        IN  /\ FracEq(impact, Frac(base * report.upvotes,
                                   report.upvotes + report.downvotes))
            /\ impact.num <= 0 /\ impact.den > 0
            /\ FracGE(impact, base)
            /\ report.downvotes = 0 => FracEq(impact, Frac(base, 1))

\* C17 witness: a blocked_path report with 10 upvotes and no downvote was
\* scored, with impact -30.
C17_Witness ==
    /\ reportImpact # NULL
    /\ reportImpact.report.type = "blocked_path"
    /\ reportImpact.report.upvotes = 10
    /\ reportImpact.report.downvotes = 0
    /\ FracEq(reportImpact.impact, Frac(-30, 1))

\* C18: at every moment the list CommunityReports displays holds no report
\* that is older than 48 hours and has fewer than 3 upvotes.
C18_NoExpiredReportDisplayed ==
    \A k \in 1..Len(validReports) :
        ~(now - validReports[k].timestamp > 48 /\ validReports[k].upvotes < 3)

\* a report after a step is the report before it with n more upvotes and
\* m more downvotes
VotedFrom(before, after, n, m) ==
    after = [before EXCEPT !.upvotes = @ + n, !.downvotes = @ + m]

\* C19: in every step a report that stays in the list (same id) keeps all
\* its fields but upvotes and downvotes, which do not decrease; and a
\* handleVote step adds exactly 1 to the upvotes ('up') or downvotes ('down')
\* of the report with the id and keeps every other report, the length and
\* the order of the list.
C19_ReportsChangeOnlyByVotes ==
    [][ /\ \A i \in 1..Len(communityReports), j \in 1..Len(communityReports') :
              communityReports[i].id = communityReports'[j].id =>
                  \E n, m \in 0..1 : VotedFrom(communityReports[i],
                                               communityReports'[j], n, m)
        /\ \A reportId \in Displayed, voteType \in {"up", "down"} :
              handleVote(reportId, voteType) =>
                  /\ Len(communityReports') = Len(communityReports)
                  /\ \A i \in 1..Len(communityReports) :
                        IF communityReports[i].id = reportId
                        THEN VotedFrom(communityReports[i], communityReports'[i],
                                       IF voteType = "up" THEN 1 ELSE 0,
                                       IF voteType = "down" THEN 1 ELSE 0)
                        ELSE communityReports'[i] = communityReports[i]
      ]_vars

\* the ids of the reports of a list that were placed from the map
PlacedIds(reports) ==
    {reports[i].id : i \in {j \in 1..Len(reports) :
                               reports[j].reportedBy = "current-user"}}

\* C21: a step adds a placed report to the list only if it is the Confirm
\* of an open placement confirmation, which a map click made with a pending
\* report opened, and the new report is the last of the list; a map click
\* (with or without a pending report, with or without a confirmation
\* already open) and Cancel
\* leave the list and the pending report as they are; and the pending report
\* goes from set to null in exactly the steps that add a placed report.
C21_PlacementCommitsOnlyOnConfirm ==
    [][ LET added == PlacedIds(communityReports') \ PlacedIds(communityReports)
        IN  /\ added # {} =>
                  /\ infoWindowRef # NULL
                  /\ infoWindowRef.pendingReport # NULL
                  /\ infoWindowRef' = NULL
                  /\ Len(communityReports') > 0
                  /\ communityReports'[Len(communityReports')].id \in added
            /\ \A spot \in ClickSpots :
                  MapClick(spot) => /\ communityReports' = communityReports
                                    /\ pendingReport' = pendingReport
            /\ CancelClick => /\ communityReports' = communityReports
                              /\ pendingReport' = pendingReport
            /\ (pendingReport # NULL /\ pendingReport' = NULL) <=> added # {}
      ]_vars

\* C21 witness: a report was placed by Confirm: it is the last of the list,
\* no report is pending and no confirmation is open.
C21_Witness ==
    /\ PlacedIds(communityReports) # {}
    /\ communityReports[Len(communityReports)].reportedBy = "current-user"
    /\ pendingReport = NULL
    /\ infoWindowRef = NULL

\* the ids of the reports of a list
ReportIds(reports) == {reports[i].id : i \in 1..Len(reports)}

\* votes or dismissals were applied to the list since the map click that
\* opened the placement confirmation: the list differs from the list of that
\* render and holds no report that list did not hold
ChangedSinceMapClick ==
    /\ infoWindowRef # NULL
    /\ communityReports # infoWindowRef.communityReports
    /\ ReportIds(communityReports) \subseteq ReportIds(infoWindowRef.communityReports)

\* C24: when a vote or a dismissal was applied to the list between the map
\* click that opened the placement confirmation and Confirm, the list after
\* Confirm is the list before Confirm (the vote or dismissal still applied)
\* with exactly one report, the new one, appended.
C24_ConfirmKeepsVotesAndDismissals ==
    [][ (ConfirmClick /\ ChangedSinceMapClick) =>
            /\ Len(communityReports') = Len(communityReports) + 1
            /\ SubSeq(communityReports', 1, Len(communityReports)) = communityReports
            /\ communityReports'[Len(communityReports')].id
                   \notin ReportIds(communityReports)
      ]_vars

\* user actions followed when asking what the interface can still reach
MaxUserActions == 3

\* From the list reports, shown by CommunityReports as the reports with the
\* ids in shown, at time t: within n user actions (a vote or a dismissal,
\* from the buttons of a shown report, or waiting TickHours) the report with
\* the id is shown.  After a vote or a dismissal the validReports effect
\* runs again on the new list.
RECURSIVE CanBecomeDisplayed(_, _, _, _, _)
CanBecomeDisplayed(reports, shown, id, t, n) ==
    \/ id \in shown
    \/ /\ n > 0
       /\ \/ \E reportId \in shown, voteType \in {"up", "down"} :
                LET voted == VoteUpdater(reports, reportId, voteType)
                IN  CanBecomeDisplayed(voted,
                                       ReportIds(filterValidReports(voted, t)),
                                       id, t, n - 1)
          \/ \E reportId \in shown :
                LET stays(r) == r.id # reportId
                    left == SelectSeq(reports, stays)
                IN  CanBecomeDisplayed(left,
                                       ReportIds(filterValidReports(left, t)),
                                       id, t, n - 1)
          \/ CanBecomeDisplayed(reports, shown, id, t + TickHours, n - 1)

\* C25: for every report placed from the map there is a sequence of user
\* actions of the interface after which CommunityReports shows it.
C25_PlacedReportCanBecomeDisplayed ==
    \A i \in 1..Len(communityReports) :
        communityReports[i].reportedBy = "current-user" =>
            CanBecomeDisplayed(communityReports, Displayed,
                               communityReports[i].id, now, MaxUserActions)

\* the report passes filterValidReports at Date.now() = t
PassesFilter(report, t) == Len(filterValidReports(<<report>>, t)) = 1

\* the list after n 'up' votes of handleVote on the report with the id
RECURSIVE Upvoted(_, _, _)
Upvoted(reports, reportId, n) ==
    IF n = 0 THEN reports
    ELSE Upvoted(VoteUpdater(reports, reportId, "up"), reportId, n - 1)

\* C30: at a fixed time a report that passes filterValidReports still passes
\* it after any number of additional upvotes: after 1..MaxVotes 'up' votes of
\* the updater of handleVote the report passes at the same time, and a step
\* of handleVote(id, "up") on a report that passes at the current time adds
\* one upvote, leaves it passing and leaves it among the reports
\* CommunityReports shows.  No step of the page that leaves the clock and
\* the downvotes of a report as they are and does not lower its upvotes
\* makes a passing report fail: that takes a downvote or the passage of time.
C30_ValidityMonotoneInUpvotes ==
    /\ [](\A i \in 1..Len(communityReports), n \in 1..MaxVotes :
             PassesFilter(communityReports[i], now) =>
                 LET after == Upvoted(communityReports, communityReports[i].id, n)[i]
                 IN  /\ after.upvotes = communityReports[i].upvotes + n
                     /\ after.downvotes = communityReports[i].downvotes
                     /\ PassesFilter(after, now))
    /\ [][ \A i \in 1..Len(communityReports) :
              (/\ handleVote(communityReports[i].id, "up")
               /\ PassesFilter(communityReports[i], now)) =>
                  /\ communityReports'[i].upvotes = communityReports[i].upvotes + 1
                  /\ communityReports'[i].downvotes = communityReports[i].downvotes
                  /\ PassesFilter(communityReports'[i], now')
                  /\ communityReports[i].id \in ReportIds(validReports')
       ]_vars
    /\ [][ \A i \in 1..Len(communityReports), j \in 1..Len(communityReports') :
              (/\ communityReports'[j].id = communityReports[i].id
               /\ communityReports'[j].upvotes >= communityReports[i].upvotes
               /\ communityReports'[j].downvotes = communityReports[i].downvotes
               /\ now' = now
               /\ PassesFilter(communityReports[i], now)) =>
                  PassesFilter(communityReports'[j], now')
       ]_vars

\* a report of the file that is no longer fresh is shown on the strength of
\* an upvote given on the page: it has 3 upvotes, one more than in the file
C30_Witness ==
    /\ filteredAt = [t |-> now]
    /\ \E i \in 1..Len(communityReports) :
          /\ communityReports[i].timestamp = -24
          /\ communityReports[i].upvotes = 3
          /\ communityReports[i].downvotes = 1
          /\ ~isReportFresh(communityReports[i].timestamp, now)
          /\ communityReports[i].id \in Displayed

----------------------------------------------------------------------------
(* Nearby places: fetchNearbyPlaces of lib/placesUtils.ts                   *)
(*                                                                          *)
(* A boolean that may be undefined is one of "true", "false", "undefined".  *)
(* The awaits of fetchNearbyPlaces continue in the microtask that follows   *)
(* the callback that settles the last promise, before any other callback,   *)
(* so the continuation is the tail of that callback's step.                 *)

\* place categories searched in one call
MaxPlaceTypes == 2

\* const placeTypes = [...]: the first MaxPlaceTypes of its nine entries
placeTypes ==
    SubSeq(<<"pharmacy", "gas_station", "restaurant", "grocery_or_supermarket",
             "subway_station", "gym", "police", "hospital",
             "convenience_store">>, 1, MaxPlaceTypes)
PlaceTypeSet == {placeTypes[i] : i \in 1..Len(placeTypes)}

\* radius: number = 2000
radius == 2000

\* a PlaceResult of nearbySearch, by what fetchNearbyPlaces reads of it
PlaceResult(place_id, distanceMeters, open_now, open24h) ==
    [place_id |-> place_id, distanceMeters |-> distanceMeters,
     open_now |-> open_now, open24h |-> open24h]

PlaceA == PlaceResult("a", 100, "undefined", FALSE)
PlaceB == PlaceResult("b", 100, "true", FALSE)
PlaceC == PlaceResult("c", 50, "false", FALSE)    \* known to be closed
PlaceD == PlaceResult("d", 3000, "true", FALSE)   \* outside the radius

\* what nearbySearch answers for one category: results come nearest first
SearchAnswers ==
    { [status |-> "ZERO_RESULTS", results |-> <<>>],
      [status |-> "UNKNOWN_ERROR", results |-> <<>>],
      [status |-> "OK", results |-> <<PlaceA>>],
      [status |-> "OK", results |-> <<PlaceB>>],
      [status |-> "OK", results |-> <<PlaceA, PlaceB, PlaceD>>],
      [status |-> "OK", results |-> <<PlaceC, PlaceB>>] }

\* what getDetails answers for one place
DetailsAnswers ==
    { [status |-> "OK", open_now |-> "true"],
      [status |-> "OK", open_now |-> "false"],
      [status |-> "OK", open_now |-> "undefined"],
      [status |-> "UNKNOWN_ERROR", open_now |-> "undefined"] }

\* the places getDetails is asked about
DetailedIds == {"a", "b"}

\* the entry pushed to allPlaces for a result of the nearby search
SafePlaceOf(place) ==
    [id             |-> place.place_id,
     placeId        |-> place.place_id,
     distanceMeters |-> place.distanceMeters,
     open24h        |-> place.open24h,
     isOpen         |-> IF place.open_now # "undefined" THEN place.open_now
                        ELSE IF place.open24h THEN "true" ELSE "undefined"]

\* the results.forEach of the nearbySearch callback: the entries pushed
RECURSIVE PushedPlaces(_, _)
PushedPlaces(status, results) ==
    IF status # "OK" \/ results = <<>> THEN <<>>
    ELSE LET place == Head(results)
             rest  == PushedPlaces(status, Tail(results))
         IN  IF place.distanceMeters <= radius /\ place.open_now # "false"
             THEN <<SafePlaceOf(place)>> \o rest
             ELSE rest

\* Array.from(new Map(allPlaces.map(place => [place.placeId || place.id,
\* place])).values()): a key keeps the position of its first entry and the
\* value of its last
RECURSIVE UniquePlaces(_)
UniquePlaces(places) ==
    IF places = <<>> THEN <<>>
    ELSE LET front == UniquePlaces(SubSeq(places, 1, Len(places) - 1))
             place == places[Len(places)]
         IN  IF \E i \in 1..Len(front) : front[i].placeId = place.placeId
             THEN [i \in 1..Len(front) |->
                      IF front[i].placeId = place.placeId THEN place
                      ELSE front[i]]
             ELSE Append(front, place)

\* uniquePlaces.slice(0, 15)
SliceFifteen(places) == SubSeq(places, 1, IF Len(places) < 15 THEN Len(places) ELSE 15)

\* the getDetails callback: the entries it pushes to placesWithDetails
DetailsPushed(place, answer) ==
    IF answer.status = "OK"
    THEN LET finalIsOpen ==
                 IF answer.open_now # "undefined" THEN answer.open_now
                 ELSE IF place.open24h THEN "true" ELSE "undefined"
         IN  IF finalIsOpen = "true"
             THEN <<[place EXCEPT !.isOpen = "true"]>>
             ELSE <<>>
    ELSE IF place.isOpen = "true" \/ (place.isOpen = "undefined" /\ place.open24h)
         THEN <<[place EXCEPT !.isOpen = "true"]>>
         ELSE <<>>

\* openPlaces.sort((a, b) => a.distanceMeters - b.distanceMeters): stable
RECURSIVE SortedByDistance(_)
SortedByDistance(places) ==
    IF places = <<>> THEN <<>>
    ELSE LET front == SortedByDistance(SubSeq(places, 1, Len(places) - 1))
             place == places[Len(places)]
             k     == Cardinality({i \in 1..Len(front) :
                          front[i].distanceMeters <= place.distanceMeters})
         IN  SubSeq(front, 1, k) \o <<place>> \o SubSeq(front, k + 1, Len(front))

\* (a join that lets the call go on at the first settled promise)
JoinedAtFirst(pending, all) == pending # all

\* await Promise.all(promises): every promise has been resolved
Joined(pending, all) == pending = {}

\* the Places service of one call: whether the Maps script is loaded, the
\* answer of nearbySearch per category and of getDetails per place; every
\* result carries a place_id
PlacesProviders ==
    { [loaded |-> TRUE, search |-> search, details |-> details] :
          search \in [PlaceTypeSet -> SearchAnswers],
          details \in [DetailedIds -> DetailsAnswers] }
    \cup
    { [loaded  |-> FALSE,
       search  |-> [type \in PlaceTypeSet |->
                       [status |-> "ZERO_RESULTS", results |-> <<>>]],
       details |-> [id \in DetailedIds |->
                       [status |-> "UNKNOWN_ERROR", open_now |-> "undefined"]]] }

InitPlacesCall ==
    /\ placesProvider \in PlacesProviders
    /\ placesCall = NULL

InitPlacesPage ==
    InitPage /\ InitGridBuilders /\ InitReports /\ InitPlacesCall /\ InitScores

PlacesFrame == <<indexVars, mapVars, envVars, gridVars, reportVars, scoreVars,
                 placesProvider>>

\* the set of the elements of a sequence
Range(seq) == {seq[i] : i \in 1..Len(seq)}

\* after await Promise.all(promises): remove duplicates and ask the details
\* of the first fifteen places
AfterSearches(call) ==
    IF call.phase = "search" /\ Joined(call.pendingSearch, PlaceTypeSet)
    THEN LET detailed == SliceFifteen(UniquePlaces(call.allPlaces))
         IN  [call EXCEPT !.phase = "details",
                          !.detailed = detailed,
                          !.pendingDetails = Range(detailed)]
    ELSE call

\* after await Promise.all(detailPromises): keep the open places, nearest
\* first, and return them (result.places is the array returned)
AfterDetails(call) ==
    IF call.phase = "details" /\ Joined(call.pendingDetails, Range(call.detailed))
    THEN LET openPlaces == SelectSeq(call.placesWithDetails,
                                     LAMBDA place : place.isOpen = "true")
         IN  [call EXCEPT !.phase = "done",
                          !.result = [places |-> SortedByDistance(openPlaces)]]
    ELSE call

\* fetchNearbyPlaces(lat, lng, radius) up to its first await: throws when
\* the Maps script is not loaded, else starts one nearbySearch per category
fetchNearbyPlaces ==
    /\ placesCall = NULL
    /\ placesCall' =
           IF ~placesProvider.loaded
           THEN [phase |-> "rejected", lookups |-> <<>>, pendingSearch |-> {},
                 allPlaces |-> <<>>, detailed |-> <<>>, pendingDetails |-> {},
                 placesWithDetails |-> <<>>, result |-> NULL]
           ELSE [phase |-> "search", lookups |-> placeTypes,
                 pendingSearch |-> PlaceTypeSet,
                 allPlaces |-> <<>>, detailed |-> <<>>, pendingDetails |-> {},
                 placesWithDetails |-> <<>>, result |-> NULL]
    /\ UNCHANGED PlacesFrame

\* the callback of service.nearbySearch for one category: pushes the places
\* of an OK answer and resolves the promise of the category
NearbySearchCallback(type) ==
    /\ placesCall # NULL
    /\ type \in placesCall.pendingSearch
    /\ LET answer == placesProvider.search[type]
           pushed == [placesCall EXCEPT
                         !.allPlaces = @ \o PushedPlaces(answer.status,
                                                         answer.results),
                         !.pendingSearch = @ \ {type}]
       IN  placesCall' = AfterDetails(AfterSearches(pushed))
    /\ UNCHANGED PlacesFrame

\* the callback of service.getDetails for one place: pushes the place when
\* it is open and resolves the promise of the place
GetDetailsCallback(place) ==
    /\ placesCall # NULL
    /\ place \in placesCall.pendingDetails
    /\ LET answer == placesProvider.details[place.placeId]
           pushed == [placesCall EXCEPT
                         !.placesWithDetails = @ \o DetailsPushed(place, answer),
                         !.pendingDetails = @ \ {place}]
       IN  placesCall' = AfterDetails(pushed)
    /\ UNCHANGED PlacesFrame

NextPlaces ==
    \/ fetchNearbyPlaces
    \/ \E type \in PlaceTypeSet : NearbySearchCallback(type)
    \/ \E place \in {SafePlaceOf(PlaceA), SafePlaceOf(PlaceB)} :
           GetDetailsCallback(place)

SpecPlaces == InitPlacesPage /\ [][NextPlaces]_vars

----------------------------------------------------------------------------
(* Nearby places: properties *)

\* the categories whose lookup answered OK
AnsweredTypes == {type \in PlaceTypeSet : placesProvider.search[type].status = "OK"}

\* the places of one category that are within the radius and not known to
\* be closed
KeptIds(type) ==
    {place.place_id : place \in
        {found \in Range(placesProvider.search[type].results) :
            found.distanceMeters <= radius /\ found.open_now # "false"}}

\* C20: with the Maps script loaded, fetchNearbyPlaces starts exactly one
\* lookup per place category; it aggregates only when no category callback
\* is outstanding, and then over exactly the places of the categories that
\* answered OK (a category that answered with an error status contributes
\* nothing and removes nothing); the call is never rejected, and it has
\* returned whenever every callback it started has fired; this for every
\* combination of answers of the categories.
C20_FanOutJoinsAndToleratesFailures ==
    (placesCall # NULL /\ placesProvider.loaded) =>
        /\ placesCall.lookups = placeTypes
        /\ \A i, j \in 1..Len(placesCall.lookups) :
               placesCall.lookups[i] = placesCall.lookups[j] => i = j
        /\ placesCall.phase # "rejected"
        /\ placesCall.phase = "search" =>
               /\ placesCall.detailed = <<>>
               /\ placesCall.result = NULL
        /\ placesCall.phase # "search" =>
               /\ placesCall.pendingSearch = {}
               /\ {place.placeId : place \in Range(placesCall.detailed)}
                      = UNION {KeptIds(type) : type \in AnsweredTypes}
        /\ (placesCall.pendingSearch = {} /\ placesCall.pendingDetails = {})
               => (placesCall.phase = "done" /\ placesCall.result # NULL)

\* the call has returned an open place although one category failed
C20_Witness ==
    /\ placesCall # NULL
    /\ placesProvider.loaded
    /\ placesCall.phase = "done"
    /\ \E type \in PlaceTypeSet :
           placesProvider.search[type].status = "UNKNOWN_ERROR"
    /\ AnsweredTypes # {}
    /\ placesCall.result # NULL
    /\ placesCall.result.places # <<>>

\* the entries of allPlaces when the search callbacks fire in the order of
\* the categories
RECURSIVE InOrderPlaces(_)
InOrderPlaces(types) ==
    IF types = <<>> THEN <<>>
    ELSE PushedPlaces(placesProvider.search[Head(types)].status,
                      placesProvider.search[Head(types)].results)
             \o InOrderPlaces(Tail(types))

\* the entries of placesWithDetails when the details callbacks fire in the
\* order of the places asked about
RECURSIVE InOrderDetails(_)
InOrderDetails(places) ==
    IF places = <<>> THEN <<>>
    ELSE DetailsPushed(Head(places), placesProvider.details[Head(places).placeId])
             \o InOrderDetails(Tail(places))

\* what fetchNearbyPlaces returns when every callback fires in the order in
\* which its lookup was started
InOrderResult ==
    LET detailed == SliceFifteen(UniquePlaces(InOrderPlaces(placeTypes)))
        openPlaces == SelectSeq(InOrderDetails(detailed),
                                LAMBDA place : place.isOpen = "true")
    IN  SortedByDistance(openPlaces)

\* C28: whatever the order in which the search and details callbacks fire,
\* fetchNearbyPlaces returns, for the same answers of the provider, the same
\* places in the same order (the result of the callbacks firing in the
\* order of their lookups): open places only, no two with the same placeId,
\* in non-decreasing distanceMeters.
C28_ResultIndependentOfCallbackOrder ==
    (placesCall # NULL /\ placesCall.phase = "done") =>
        LET places == placesCall.result.places
        IN  /\ places = InOrderResult
            /\ \A i \in 1..Len(places) : places[i].isOpen = "true"
            /\ \A i, j \in 1..Len(places) :
                  places[i].placeId = places[j].placeId => i = j
            /\ \A i, j \in 1..Len(places) :
                  i <= j => places[i].distanceMeters <= places[j].distanceMeters

----------------------------------------------------------------------------
(* Grid builders: one cell per bin *)

\* no two cells of a grid have the same (latMin, lngMin)
OneCellPerBin(cells) ==
    \A i, j \in 1..Len(cells) :
        (cells[i].latMin = cells[j].latMin /\ cells[i].lngMin = cells[j].lngMin)
            => i = j

\* C29: no two cells of the crime grid, and no two cells of the lighting
\* grid, have the same (latMin, lngMin) bin; the rows that fall in one bin
\* are accumulated into its cell, so the counts of the crime cells add up
\* to the number of rows kept.
C29_OneCellPerBin ==
    /\ heatmapJson # NULL =>
          /\ OneCellPerBin(heatmapJson.cells)
          /\ SumCrimeCount(heatmapJson.cells)
                 = Cardinality({i \in 1..Len(crimeCsv) : CrimeRowKept(crimeCsv[i])})
    /\ lightingJson # NULL => OneCellPerBin(lightingJson.cells)

----------------------------------------------------------------------------
(* Route requests: retry and the cached branch *)

\* C26: when the latest directions request has failed (a non-OK status or no
\* route) and the selection is the one it was issued with, submitting its
\* origin and destination again issues a new directions request.
C26_FailedRequestCanBeRetried ==
    ( /\ requests # <<>>
      /\ requests[LatestRequest].outcome \in {"failed", "empty"}
      /\ requests[LatestRequest].sel = selectedRouteType )
    => \A o \in Locs \cup {NULL}, d \in Locs :
          ( /\ ~(o = NULL /\ userLocation = NULL)
            /\ EffectiveOrigin(o, userLocation) = requests[LatestRequest].origin
            /\ d = requests[LatestRequest].dest )
          => Len(RouteEffect(MapState, o, d, userLocation,
                             selectedRouteType).reqs) = Len(requests) + 1

\* a step takes the cached branch of the route effect: only that branch
\* stores a new key without issuing a request
ServedFromStoredComparison ==
    /\ lastRouteKeyRef' # lastRouteKeyRef
    /\ Len(requests') = Len(requests)

\* C27: whenever the route effect serves a selection of the user
\* (handleRouteTypeSelect) from the stored comparison instead of issuing a
\* request, the stored comparison, and so the route drawn, was computed for
\* the current (origin, destination) pair.
C27_CachedBranchShowsCurrentPair ==
    [][ \A t \in RouteTypes :
            (handleRouteTypeSelect(t) /\ ServedFromStoredComparison) =>
                /\ routeComparisonRef # NULL
                /\ ComparisonPair(routeComparisonRef) = CurrentPair
                /\ drawn' # NULL
                /\ RequestPair(drawn'.route.req) = CurrentPair'
      ]_vars

----------------------------------------------------------------------------
(* The route comparator: the selection rules of section 4.5 of the         *)
(* specification, applied to bounded candidate lists.  lib/heatmapUtils,   *)
(* which holds compareRoutes, is not among the sources; Picks above leaves *)
(* the selection to the environment, here it is computed.                  *)

\* candidates of one compareRoutes call
MaxCandidates == 2

DistanceSamples == {100, 110, 200}
DurationSamples == {50, 60}
SafetySamples == {70, 80}

\* candidate lists: per route its length, its duration and the combined
\* safety score the grids give along its path
CandidateLists ==
    UNION { { [i \in 1..n |-> [idx |-> i,
                               distanceMeters |-> f[i][1],
                               durationSeconds |-> f[i][2],
                               safety |-> f[i][3]]] :
                f \in [1..n -> DistanceSamples \X DurationSamples \X SafetySamples] } :
            n \in 1..MaxCandidates }

\* the fields of a RouteScore
DistanceMeters(score) == score.route.distanceMeters
DurationSeconds(score) == score.route.durationSeconds
CombinedSafetyScore(score) == score.route.safety

\* the penalty weight P of the balanced selection
BalancedPenalty == 40

\* shortest = min distanceMeters; tie-break: min durationSeconds
ShortestPicks(routes) ==
    LET least == {i \in 1..Len(routes) : \A j \in 1..Len(routes) :
                     routes[i].distanceMeters <= routes[j].distanceMeters}
    IN  {i \in least : \A j \in least :
            routes[i].durationSeconds <= routes[j].durationSeconds}

\* safest = max combinedSafetyScore; tie-break: min distanceMeters
SafestPicks(routes) ==
    LET best == {i \in 1..Len(routes) : \A j \in 1..Len(routes) :
                    routes[i].safety >= routes[j].safety}
    IN  {i \in best : \A j \in best :
            routes[i].distanceMeters <= routes[j].distanceMeters}

\* combinedSafetyScore - P * extraDistanceRatio, times the distance of the
\* shortest route (which is positive), so that it is an integer
BalancedValue(route, shortestDistance) ==
    route.safety * shortestDistance
        - BalancedPenalty * (route.distanceMeters - shortestDistance)

\* (a balanced selection that forgets the penalty for the extra distance)
BalancedPicksNoPenalty(routes) ==
    {i \in 1..Len(routes) : \A j \in 1..Len(routes) :
        routes[i].safety >= routes[j].safety}

\* balanced = the route that maximizes
\* combinedSafetyScore - P * extraDistanceRatio
BalancedPicks(routes) ==
    LET shortestDistance ==
            routes[CHOOSE i \in ShortestPicks(routes) : TRUE].distanceMeters
    IN  {i \in 1..Len(routes) : \A j \in 1..Len(routes) :
            BalancedValue(routes[i], shortestDistance)
                >= BalancedValue(routes[j], shortestDistance)}

\* the selections the rules allow: what they leave open (candidates that
\* tie after the tie-break) is any of the tied candidates
SelectionPicks(routes) ==
    ShortestPicks(routes) \X SafestPicks(routes) \X BalancedPicks(routes)

InitCompare ==
    /\ InitPage /\ InitGridBuilders /\ InitReports /\ InitPlaces
    /\ \E routes \in CandidateLists :
          compareRun = [routes |-> routes, comparison |-> NULL]

\* compareRoutes(candidates, crimeGrid, lightingGrid)
CompareCandidates ==
    /\ compareRun.comparison = NULL
    /\ \E pick \in SelectionPicks(compareRun.routes) :
          compareRun' = [compareRun EXCEPT !.comparison =
                            compareRoutes(compareRun.routes, CrimeGridArg,
                                          LightingGridArg, pick)]
    /\ UNCHANGED <<indexVars, mapVars, envVars, gridVars, reportVars, placeVars>>

NextCompare == CompareCandidates

SpecCompare == InitCompare /\ [][NextCompare]_vars

\* the three selections of a comparison
SelectedScores(comparison) ==
    {comparison.shortest, comparison.safest, comparison.balanced}

\* C22: in the comparison compareRoutes returns, shortest, safest and
\* balanced are each the same object as an element of routes; with one
\* candidate all three are routes[0].
C22_SelectionsAreElementsOfRoutes ==
    compareRun.comparison # NULL =>
        LET comparison == compareRun.comparison
        IN  /\ \A selected \in SelectedScores(comparison) :
                  \E i \in 1..Len(comparison.routes) :
                      /\ selected.ref = comparison.routes[i].ref
                      /\ selected = comparison.routes[i]
            /\ \A i, j \in 1..Len(comparison.routes) :
                  comparison.routes[i].ref = comparison.routes[j].ref => i = j
            /\ Len(compareRun.routes) = 1 =>
                  \A selected \in SelectedScores(comparison) :
                      selected.ref = comparison.routes[1].ref

\* C22 witness: of two candidates the comparator selected the first as
\* shortest and the second as safest.
C22_Witness ==
    /\ compareRun.comparison # NULL
    /\ Len(compareRun.routes) = 2
    /\ compareRun.comparison.shortest.ref = compareRun.comparison.routes[1].ref
    /\ compareRun.comparison.safest.ref = compareRun.comparison.routes[2].ref

\* all three roles of the comparison are candidate i
TakesAllRoles(comparison, i) ==
    \A selected \in SelectedScores(comparison) :
        selected.ref = comparison.routes[i].ref

\* candidate i has the minimum distanceMeters and the maximum
\* combinedSafetyScore of the candidates
MinDistanceMaxSafety(routes, i) ==
    \A j \in 1..Len(routes) :
        /\ routes[i].distanceMeters <= routes[j].distanceMeters
        /\ routes[i].safety >= routes[j].safety

Dominates(routes, i) ==
    \A j \in 1..Len(routes) \ {i} :
        /\ routes[i].safety >= routes[j].safety
        /\ \/ routes[i].distanceMeters < routes[j].distanceMeters
           \/ /\ routes[i].distanceMeters = routes[j].distanceMeters
              /\ routes[i].durationSeconds < routes[j].durationSeconds
              /\ routes[i].safety > routes[j].safety

====
